---- MODULE Spec2Model ----
(***************************************************************************)
(* Model of src/templ/vector.rs: the Vector capability trait with its      *)
(* derived methods (from_iter, with_capacity, to_vec), the bounds checker  *)
(* index_check, and the two iterator adapters VectorIterator (owning) and  *)
(* VectorRefIterator (borrowed).                                           *)
(*                                                                         *)
(* The trait's required primitives (new, reserve, push, len, get, ...)     *)
(* have no body in the source; they are modelled from their documented     *)
(* contract.  The derived methods, index_check and the iterators are       *)
(* translated from their code.                                             *)
(***************************************************************************)
EXTENDS Integers, Sequences, FiniteSets, TLC

\* ------------------------------------------------------------------ bounds

\* Modelled width of size_t in bits (64 on the real targets); arithmetic on
\* a size_t is taken modulo 2^SizeBits.
SizeBits == 3

\* Longest container / source sequence.
MaxLen == 3

\* Largest size estimate a source iterator declares, and largest capacity
\* asked of with_capacity.
MaxHint == 4

\* Largest over-allocation a container's growth policy adds.
MaxSlack == 1

\* Largest index / length handed to index_check directly.
MaxIdx == 3

SizeMod == 2 ^ SizeBits

\* Calls of next() followed on one iterator: enough to pass the wrap-around
\* of the cursor and to run through the container once more.
MaxCalls == SizeMod + MaxLen + 1

Values == {"a", "b"}

SeqsUpTo(n) == UNION {[1..k -> Values] : k \in 0..n}

Max(a, b) == IF a >= b THEN a ELSE b

\* ------------------------------------------------------- Option and Result

\* Option<size_t>
NoSize == [some |-> FALSE, val |-> 0]
SomeSize(n) == [some |-> TRUE, val |-> n]

\* Option<Storage>
None == [some |-> FALSE, val |-> "-"]
Some(x) == [some |-> TRUE, val |-> x]

\* Option::unwrap_or
unwrap_or(opt, default) == IF opt.some THEN opt.val ELSE default

\* crate::Result<T>: Ok(val) or Err(Error::new(code, message)); the message
\* "Index: {} out of bounds: 0..{}" is kept as the pair it is formatted from.
Ok(x) == [ok |-> TRUE, val |-> x, code |-> "-", msg |-> <<>>]
Err(code, msg) == [ok |-> FALSE, val |-> "-", code |-> code, msg |-> msg]

\* Result::ok: Result<T> -> Option<T>
ok(r) == IF r.ok THEN Some(r.val) ELSE None

\* ------------------------------------------------------------- variables

VARIABLES
    slack,            \* the container implementation's over-allocation
    vec,              \* the container under construction / inspection
    origin,           \* which constructor built vec, and from what
    tv,               \* result of the last to_vec() on vec
    ic,               \* the last direct index_check call and its result
    overflow_checks,  \* build profile: TRUE panics on integer overflow
    it,               \* VectorIterator  {vec, i}
    rit,              \* VectorRefIterator {vec, i}
    h_own,            \* what the owning iterator's next() calls returned
    h_ref,            \* what the borrowed iterator's next() calls returned
    q_own,            \* last size_hint()/len() on the owning iterator
    q_ref             \* last size_hint()/len() on the borrowed iterator

contVars == <<slack, vec, origin, tv, ic>>
iterVars == <<overflow_checks, it, rit, h_own, h_ref, q_own, q_ref>>
vars == <<slack, vec, origin, tv, ic,
          overflow_checks, it, rit, h_own, h_ref, q_own, q_ref>>

\* ------------------------------------------------------- bounds checker

\* index_check with the comparison off by one.
index_check_gt(index, len) ==
    IF index > len
        THEN Err("StsOutOfRange", <<index, len>>)
        ELSE Ok("unit")

\* Vector::index_check
index_check(index, len) ==
    IF index >= len
        THEN Err("StsOutOfRange", <<index, len>>)
        ELSE Ok("unit")

\* ------------------------------------- required primitives (contract only)

\* A container: its live elements, its capacity, and the trace of the
\* mutating primitive calls made on it (op, argument, length at the call).
Call(op, arg, n) == [op |-> op, arg |-> arg, len |-> n]

\* Vector::new
new == [elems |-> <<>>, cap |-> 0, calls |-> <<Call("new", 0, 0)>>]

\* Vector::len
len(self) == Len(self.elems)

\* Vector::is_empty
is_empty(self) == len(self) = 0

\* Vector::capacity
capacity(self) == self.cap

\* Vector::reserve
reserve(self, additional) ==
    [self EXCEPT
        !.cap = IF self.cap >= len(self) + additional
                    THEN self.cap
                    ELSE len(self) + additional + slack,
        !.calls = Append(self.calls, Call("reserve", additional, len(self)))]

\* Vector::push
push(self, val) ==
    [self EXCEPT
        !.elems = Append(self.elems, val),
        !.cap = IF len(self) + 1 > self.cap
                    THEN len(self) + 1 + slack
                    ELSE self.cap,
        !.calls = Append(self.calls, Call("push", val, len(self)))]

\* Vector::get
get(self, index) ==
    LET r == index_check(index, len(self))
    IN  IF r.ok THEN Ok(self.elems[index + 1]) ELSE r

\* Vector::get_unchecked: the set of values a call can produce.  Within
\* bounds it is the element; out of bounds the behaviour is undefined, so
\* any value, or a read of garbage, may come back.
get_unchecked(self, index) ==
    IF index < len(self)
        THEN {self.elems[index + 1]}
        ELSE Values \cup {"garbage"}

\* ----------------------------------------------------- derived methods

\* The half-open range a..b as the sequence of its members.
Range(a, b) == [k \in 1..(b - a) |-> a + k - 1]

\* with_capacity that forgets the reserve.
with_capacity_noreserve(cap) == new

\* Vector::with_capacity
with_capacity(cap) ==
    LET out == new
    IN  reserve(out, cap)

\* s.for_each(|x| out.push(x))
RECURSIVE for_each_push(_, _)
for_each_push(out, items) ==
    IF items = <<>>
        THEN out
        ELSE for_each_push(push(out, Head(items)), Tail(items))

\* from_iter that pre-reserves the lower bound only.
from_iter_lo(s) ==
    LET out == with_capacity(s.lo)
    IN  for_each_push(out, s.items)

\* from_iter that pushes the produced values last to first.
from_iter_rev(s) ==
    LET out == with_capacity(unwrap_or(s.hi, s.lo))
        n == Len(s.items)
    IN  for_each_push(out, [k \in 1..n |-> s.items[n + 1 - k]])

\* Vector::from_iter; s is the source iterator: the values it produces and
\* the (lo, hi) its size_hint() declares.
from_iter(s) ==
    LET lo == s.lo
        hi == s.hi
        out == with_capacity(unwrap_or(hi, lo))
    IN  for_each_push(out, s.items)

\* (range).map(|x| self.get_unchecked(x)).collect(): every sequence the
\* reads can produce.
RECURSIVE map_collect(_, _)
map_collect(self, range) ==
    IF range = <<>>
        THEN {<<>>}
        ELSE {<<x>> \o rest :
                x \in get_unchecked(self, Head(range)),
                rest \in map_collect(self, Tail(range))}

\* to_vec over the closed range 0..=len.
to_vec_inclusive(self) ==
    LET range == Range(0, len(self) + 1)
    IN  {[done |-> TRUE, out |-> o, reads |-> range] :
            o \in map_collect(self, range)}

\* Vector::to_vec: the results it can produce, each with the indices handed
\* to get_unchecked, in call order.
to_vec(self) ==
    LET range == Range(0, len(self))
    IN  {[done |-> TRUE, out |-> o, reads |-> range] :
            o \in map_collect(self, range)}

\* ------------------------------------------------------------ iterators

\* self.i += 1 on a size_t: the sum, and whether it overflowed.
Inc(i) == [val |-> (i + 1) % SizeMod, overflow |-> i + 1 >= SizeMod]

\* Outcome of one next(): the iterator afterwards, the value returned, and
\* whether the call panicked instead of returning.
Returned(self, ret) == [self |-> self, ret |-> ret, panic |-> FALSE]
Panicked(self) == [self |-> self, ret |-> None, panic |-> TRUE]

\* VectorIterator::new
VectorIterator_new(v) == [vec |-> v, i |-> 0]

\* VectorIterator::next
VectorIterator_next(self) ==
    LET out == get(self.vec, self.i)
        sum == Inc(self.i)
    IN  IF sum.overflow /\ overflow_checks
            THEN Panicked(self)
            ELSE Returned([self EXCEPT !.i = sum.val], ok(out))

\* size_hint reporting the elements still to come.
VectorIterator_size_hint_remaining(self) ==
    <<Max(len(self.vec) - self.i, 0), NoSize>>

\* VectorIterator::size_hint
VectorIterator_size_hint(self) == <<len(self.vec), NoSize>>

\* ExactSizeIterator::len for VectorIterator
VectorIterator_len(self) == len(self.vec)

\* VectorRefIterator::new
VectorRefIterator_new(v) == [vec |-> v, i |-> 0]

\* next that advances the cursor only when it returns an element.
VectorRefIterator_next_guarded(self) ==
    LET out == get(self.vec, self.i)
    IN  IF out.ok
            THEN Returned([self EXCEPT !.i = Inc(self.i).val], ok(out))
            ELSE Returned(self, None)

\* VectorRefIterator::next
VectorRefIterator_next(self) ==
    LET out == get(self.vec, self.i)
        sum == Inc(self.i)
    IN  IF sum.overflow /\ overflow_checks
            THEN Panicked(self)
            ELSE Returned([self EXCEPT !.i = sum.val], ok(out))

\* VectorRefIterator::size_hint
VectorRefIterator_size_hint(self) == <<len(self.vec), NoSize>>

\* ExactSizeIterator::len for VectorRefIterator
VectorRefIterator_len(self) == len(self.vec)

\* ------------------------------------------------ states before any call

\* A source iterator: the values it produces, and the size_hint it declares
\* (which need not match the number of values).
Sources ==
    {s \in [items : SeqsUpTo(MaxLen),
            lo : 0..MaxHint,
            hi : {NoSize} \cup {SomeSize(n) : n \in 0..MaxHint}] :
        s.hi.some => s.lo <= s.hi.val}

\* A source whose size_hint is exact, as a slice or Vec iterator gives.
ExactSource(items) ==
    [items |-> items, lo |-> Len(items), hi |-> SomeSize(Len(items))]

NoOrigin == [op |-> "new", src |-> ExactSource(<<>>), arg |-> 0]
NoToVec == [done |-> FALSE, out |-> <<>>, reads |-> <<>>]
NoCheck == [done |-> FALSE, index |-> 0, len |-> 0, res |-> Ok("unit")]
NoQuery == [op |-> "none", lo |-> 0, hi |-> NoSize, n |-> 0, k |-> 0]
NoCalls == [nexts |-> 0, yields |-> 0, last |-> None,
            ended |-> FALSE, again |-> FALSE, panicked |-> FALSE]

ContIdle ==
    /\ slack = 0
    /\ vec = new
    /\ origin = NoOrigin
    /\ tv = NoToVec
    /\ ic = NoCheck

IterIdle ==
    /\ overflow_checks = FALSE
    /\ it = VectorIterator_new(new)
    /\ rit = VectorRefIterator_new(new)
    /\ h_own = NoCalls
    /\ h_ref = NoCalls
    /\ q_own = NoQuery
    /\ q_ref = NoQuery

\* ----------------------------------------- the container's derived methods

Init ==
    /\ slack \in 0..MaxSlack
    /\ vec = new
    /\ origin = NoOrigin
    /\ tv = NoToVec
    /\ ic = NoCheck
    /\ IterIdle

\* let v = V::from_iter(s)
CallFromIter ==
    \E s \in Sources :
        /\ origin.op = "new"
        /\ vec' = from_iter(s)
        /\ origin' = [op |-> "from_iter", src |-> s, arg |-> 0]
        /\ tv' = NoToVec
        /\ UNCHANGED <<slack, ic>>
        /\ UNCHANGED iterVars

\* let v = V::with_capacity(n)
CallWithCapacity ==
    \E n \in 0..MaxHint :
        /\ origin.op = "new"
        /\ vec' = with_capacity(n)
        /\ origin' = [op |-> "with_capacity", src |-> ExactSource(<<>>), arg |-> n]
        /\ tv' = NoToVec
        /\ UNCHANGED <<slack, ic>>
        /\ UNCHANGED iterVars

\* v.to_vec()
CallToVec ==
    /\ ~tv.done
    /\ \E r \in to_vec(vec) : tv' = r
    /\ UNCHANGED <<slack, vec, origin, ic>>
    /\ UNCHANGED iterVars

\* Vector::index_check(index, len)
CallIndexCheck ==
    \E index \in 0..MaxIdx, n \in 0..MaxIdx :
        /\ ~ic.done
        /\ ic' = [done |-> TRUE, index |-> index, len |-> n,
                  res |-> index_check(index, n)]
        /\ UNCHANGED <<slack, vec, origin, tv>>
        /\ UNCHANGED iterVars

Next ==
    \/ CallFromIter
    \/ CallWithCapacity
    \/ CallToVec
    \/ CallIndexCheck

Spec == Init /\ [][Next]_vars

\* --------------------------------------- properties of the derived methods

\* C1: for every finite source sequence S, to_vec(from_iter(S)) is S itself:
\* the same length and the same element at every index, in production order.
C1_FromIterToVecRoundTrip ==
    (origin.op = "from_iter" /\ tv.done) => tv.out = origin.src.items

\* A round trip of a source of at least two values, not all alike.
C1_Witness ==
    /\ origin.op = "from_iter"
    /\ tv.done
    /\ Len(origin.src.items) >= 2
    /\ origin.src.items[1] # origin.src.items[2]

\* C4: index_check(index, len) succeeds exactly when index < len, and for
\* every index >= len it returns the StsOutOfRange error value carrying the
\* index and the bound.
C4_IndexCheckIffInRange ==
    ic.done =>
        /\ ic.res.ok <=> ic.index < ic.len
        /\ ic.index >= ic.len =>
                ic.res = Err("StsOutOfRange", <<ic.index, ic.len>>)
        /\ ic.index < ic.len => ic.res = Ok("unit")

\* index_check called with index == len has returned the error.
C4_Witness ==
    /\ ic.done
    /\ ic.index = ic.len
    /\ ~ic.res.ok

\* C6: with_capacity(n) is new() followed by exactly one reserve(n): the
\* result is empty and its capacity is at least n, hence at least its length.
C6_WithCapacityIsNewThenReserve ==
    origin.op = "with_capacity" =>
        /\ len(vec) = 0
        /\ is_empty(vec)
        /\ capacity(vec) >= origin.arg
        /\ capacity(vec) >= len(vec)
        /\ Len(vec.calls) = 2
        /\ vec.calls[1].op = "new"
        /\ vec.calls[2] = Call("reserve", origin.arg, 0)

\* with_capacity has returned for a positive capacity.
C6_Witness ==
    /\ origin.op = "with_capacity"
    /\ origin.arg >= 1
    /\ capacity(vec) >= 1

\* C7: to_vec() on a container of length N hands get_unchecked the indices
\* 0, 1, ..., N-1 in that order and never an index >= N; its result has
\* length N with the i-th element what get(i) returns; and the container is
\* still what its constructor built.
C7_ToVecReadsInRange ==
    tv.done =>
        /\ Len(tv.reads) = len(vec)
        /\ \A k \in 1..Len(tv.reads) :
                tv.reads[k] = k - 1 /\ tv.reads[k] < len(vec)
        /\ Len(tv.out) = len(vec)
        /\ \A i \in 0..(len(vec) - 1) :
                get(vec, i).ok /\ tv.out[i + 1] = get(vec, i).val
        /\ origin.op = "from_iter" => vec = from_iter(origin.src)
        /\ origin.op = "with_capacity" => vec = with_capacity(origin.arg)

\* to_vec has run on a container of at least two elements.
C7_Witness ==
    /\ tv.done
    /\ len(vec) >= 2
    /\ Len(tv.reads) >= 2

\* to_vec has run on an empty container.
C7_WitnessEmpty ==
    /\ tv.done
    /\ len(vec) = 0

\* C8: from_iter makes its single reserve before the first push, on the
\* still-empty container, with the source's upper size bound when it declares
\* one and its lower bound otherwise; and the container's length is the number
\* of values the source produced, whatever the size estimate was.
C8_FromIterReservesOnceFirst ==
    origin.op = "from_iter" =>
        LET s == origin.src
            c == vec.calls
        IN  /\ Len(c) = 2 + Len(s.items)
            /\ c[1].op = "new"
            /\ c[2].op = "reserve"
            /\ c[2].len = 0
            /\ c[2].arg = (IF s.hi.some THEN s.hi.val ELSE s.lo)
            /\ \A k \in 3..Len(c) : c[k].op = "push"
            /\ len(vec) = Len(s.items)

\* from_iter has consumed a source whose declared upper bound differs from
\* its lower bound and is below the number of values it produced.
C8_Witness ==
    /\ origin.op = "from_iter"
    /\ origin.src.hi.some
    /\ origin.src.hi.val # origin.src.lo
    /\ origin.src.hi.val < Len(origin.src.items)
    /\ len(vec) = Len(origin.src.items)

\* ------------------------------------------------- stepping the iterators

\* The record of an iterator's next() calls after one more call: how many
\* were made, how many returned an element, what the last one returned,
\* whether one has returned None, whether an element came after a None, and
\* whether the last call panicked.
Record(h, o) ==
    [nexts |-> h.nexts + 1,
     yields |-> h.yields + (IF ~o.panic /\ o.ret.some THEN 1 ELSE 0),
     last |-> o.ret,
     ended |-> h.ended \/ (~o.panic /\ ~o.ret.some),
     again |-> h.again \/ (h.ended /\ ~o.panic /\ o.ret.some),
     panicked |-> o.panic]

HintQuery(r, k) == [op |-> "size_hint", lo |-> r[1], hi |-> r[2], n |-> 0, k |-> k]
LenQuery(r, k) == [op |-> "len", lo |-> 0, hi |-> NoSize, n |-> r, k |-> k]

\* A container of fixed contents, an owning iterator made from it and a
\* borrowed iterator over it; vec keeps the contents they were made over.
InitIter ==
    /\ slack = 0
    /\ \E items \in SeqsUpTo(MaxLen) :
        /\ origin = [op |-> "from_iter", src |-> ExactSource(items), arg |-> 0]
        /\ vec = from_iter(ExactSource(items))
    /\ tv = NoToVec
    /\ ic = NoCheck
    /\ overflow_checks \in BOOLEAN
    /\ it = VectorIterator_new(vec)
    /\ rit = VectorRefIterator_new(vec)
    /\ h_own = NoCalls
    /\ h_ref = NoCalls
    /\ q_own = NoQuery
    /\ q_ref = NoQuery

\* it.next()
OwnNext ==
    /\ ~h_own.panicked
    /\ h_own.nexts < MaxCalls
    /\ LET o == VectorIterator_next(it)
       IN  /\ it' = o.self
           /\ h_own' = Record(h_own, o)
    /\ q_own' = NoQuery
    /\ UNCHANGED <<overflow_checks, rit, h_ref, q_ref>>
    /\ UNCHANGED contVars

\* rit.next()
RefNext ==
    /\ ~h_ref.panicked
    /\ h_ref.nexts < MaxCalls
    /\ LET o == VectorRefIterator_next(rit)
       IN  /\ rit' = o.self
           /\ h_ref' = Record(h_ref, o)
    /\ q_ref' = NoQuery
    /\ UNCHANGED <<overflow_checks, it, h_own, q_own>>
    /\ UNCHANGED contVars

\* it.size_hint()
OwnSizeHint ==
    /\ ~h_own.panicked
    /\ q_own' = HintQuery(VectorIterator_size_hint(it), h_own.nexts)
    /\ UNCHANGED <<overflow_checks, it, rit, h_own, h_ref, q_ref>>
    /\ UNCHANGED contVars

\* ExactSizeIterator::len(&it)
OwnLen ==
    /\ ~h_own.panicked
    /\ q_own' = LenQuery(VectorIterator_len(it), h_own.nexts)
    /\ UNCHANGED <<overflow_checks, it, rit, h_own, h_ref, q_ref>>
    /\ UNCHANGED contVars

\* rit.size_hint()
RefSizeHint ==
    /\ ~h_ref.panicked
    /\ q_ref' = HintQuery(VectorRefIterator_size_hint(rit), h_ref.nexts)
    /\ UNCHANGED <<overflow_checks, it, rit, h_own, h_ref, q_own>>
    /\ UNCHANGED contVars

\* ExactSizeIterator::len(&rit)
RefLen ==
    /\ ~h_ref.panicked
    /\ q_ref' = LenQuery(VectorRefIterator_len(rit), h_ref.nexts)
    /\ UNCHANGED <<overflow_checks, it, rit, h_own, h_ref, q_own>>
    /\ UNCHANGED contVars

NextIter ==
    \/ OwnNext
    \/ RefNext
    \/ OwnSizeHint
    \/ OwnLen
    \/ RefSizeHint
    \/ RefLen

\* The two iterators used independently of each other.
SpecIter == InitIter /\ [][NextIter]_vars

\* it.next() and rit.next(), one after the other
BothNext ==
    /\ ~h_own.panicked
    /\ ~h_ref.panicked
    /\ h_own.nexts < MaxCalls
    /\ LET o == VectorIterator_next(it)
           r == VectorRefIterator_next(rit)
       IN  /\ it' = o.self
           /\ h_own' = Record(h_own, o)
           /\ rit' = r.self
           /\ h_ref' = Record(h_ref, r)
    /\ q_own' = NoQuery
    /\ q_ref' = NoQuery
    /\ UNCHANGED overflow_checks
    /\ UNCHANGED contVars

\* it.size_hint() and rit.size_hint()
BothSizeHint ==
    /\ ~h_own.panicked
    /\ ~h_ref.panicked
    /\ q_own' = HintQuery(VectorIterator_size_hint(it), h_own.nexts)
    /\ q_ref' = HintQuery(VectorRefIterator_size_hint(rit), h_ref.nexts)
    /\ UNCHANGED <<overflow_checks, it, rit, h_own, h_ref>>
    /\ UNCHANGED contVars

\* it.len() and rit.len()
BothLen ==
    /\ ~h_own.panicked
    /\ ~h_ref.panicked
    /\ q_own' = LenQuery(VectorIterator_len(it), h_own.nexts)
    /\ q_ref' = LenQuery(VectorRefIterator_len(rit), h_ref.nexts)
    /\ UNCHANGED <<overflow_checks, it, rit, h_own, h_ref>>
    /\ UNCHANGED contVars

NextPair ==
    \/ BothNext
    \/ BothSizeHint
    \/ BothLen

\* The two iterators stepped side by side.
SpecPair == InitIter /\ [][NextPair]_vars

\* ---------------------------------------------- properties of the iterators

Min(a, b) == IF a <= b THEN a ELSE b

\* An iterator over a container of length N whose next() calls so far gave
\* the element at index k-1 on call k for k <= N and None on every later
\* call, never an element after a None, and never panicked.
YieldsThenExhausted(self, h) ==
    LET N == len(self.vec)
    IN  /\ ~h.panicked
        /\ h.yields = Min(h.nexts, N)
        /\ (h.nexts >= 1 /\ h.nexts <= N) =>
                h.last = Some(self.vec.elems[h.nexts])
        /\ h.nexts > N => h.last = None
        /\ ~h.again

\* C2: over a container of fixed length N a fresh VectorIterator or
\* VectorRefIterator yields exactly N elements, the k-th being the element at
\* index k-1, and returns None on every later next() call, however many are
\* made; it never yields an element after it has returned None.
C2_YieldsNThenNoneForever ==
    /\ YieldsThenExhausted(it, h_own)
    /\ YieldsThenExhausted(rit, h_ref)

\* C3: in every state of an iterator the cursor is at most the container
\* length: it advances only when next() returns an element and stays put
\* once it equals the length.
C3_CursorAtMostLength ==
    /\ it.i <= len(it.vec)
    /\ rit.i <= len(rit.vec)

\* A query answered with the container's length.
ReportsLength(self, qr) ==
    /\ qr.op = "size_hint" => (qr.lo = len(self.vec) /\ qr.hi = NoSize)
    /\ qr.op = "len" => qr.n = len(self.vec)

\* C5: before, during and after consumption size_hint() returns the
\* container's length as the lower bound with no upper bound, and the
\* exact-size len() returns the container's length.
C5_SizeHintIsContainerLength ==
    /\ ReportsLength(it, q_own)
    /\ ReportsLength(rit, q_ref)
    /\ it.vec = vec
    /\ rit.vec = vec

\* size_hint() asked of the owning iterator in mid-consumption, and len()
\* asked of the borrowed one after it is exhausted.
C5_Witness ==
    /\ q_own.op = "size_hint"
    /\ q_own.k >= 1
    /\ q_own.k < len(vec)
    /\ q_ref.op = "len"
    /\ q_ref.k > len(vec)

\* A query answered with the number of elements still to come after the k
\* next() calls made before it.
ReportsRemaining(self, qr) ==
    /\ qr.op = "size_hint" => qr.lo = Max(len(self.vec) - qr.k, 0)
    /\ qr.op = "len" => qr.n = Max(len(self.vec) - qr.k, 0)

\* C9: after k calls of next() over a container of fixed length N, the
\* size_hint() lower bound and the exact-size len() equal max(N - k, 0), so
\* they never exceed the number of elements still to be yielded.
C9_SizeHintIsRemaining ==
    /\ ReportsRemaining(it, q_own)
    /\ ReportsRemaining(rit, q_ref)

\* C10: an owning and a borrowed iterator over the same contents, stepped
\* side by side, return the same from every next(), report the same
\* size_hint() and len(), keep equal cursors, and leave the container's
\* length and elements as they were.
C10_OwningAndBorrowedAgree ==
    /\ it.i = rit.i
    /\ h_own = h_ref
    /\ q_own = q_ref
    /\ it.vec = vec
    /\ rit.vec = vec

\* Both iterators have yielded elements, run past the end, and answered a
\* size_hint() there.
C10_Witness ==
    /\ h_own.yields >= 2
    /\ h_own.ended
    /\ h_ref.ended
    /\ q_own.op = "size_hint"
    /\ q_ref.op = "size_hint"

====
